---- MODULE Spec2Model ----
(***************************************************************************)
(* Model of the two command line tools of ngeht-vdiftools:                 *)
(*   pcap2vdif.py  extracts UDP payloads from a capture into .vdif files   *)
(*   mock-dbe.py   replays the frames of a VDIF file as UDP datagrams      *)
(* Spec        is the state machine of pcap2vdif.main,                     *)
(* SpecReplay  is the state machine of mock-dbe.main.                      *)
(***************************************************************************)
EXTENDS Integers, Sequences, FiniteSets, TLC

VARIABLES
    args,              \* pcap2vdif: parsed command line (r, start_packet, num_packets, single_vdif)
    capture,           \* pcap2vdif: the records of the capture file, in file order
    pc,                \* pcap2vdif: position of main
    frame,             \* pcap2vdif: extraction.frame, the records read so far
    idx,               \* pcap2vdif: 0-based loop index of the processing loop
    collected_frames,  \* pcap2vdif: the module-level dict src -> dst -> bytearray
    writes,            \* pcap2vdif: the calls of open(outfile,'wb').write, in order
    calls,             \* pcap2vdif: the calls of process_packet, in order
    err,               \* pcap2vdif: the exception that ended main, "" if none
    vdif_file,         \* mock-dbe: the frames stored in the VDIF file, in file order
    rpc,               \* mock-dbe: position of main
    fs_frames,         \* mock-dbe: fs.frames, the frames of the decoded frame set
    fpos,              \* mock-dbe: position of the raw file handle fh
    k,                 \* mock-dbe: number of iterations of the send loop that have run
    sent,              \* mock-dbe: the datagrams handed to sock.sendto, in order
    rerr               \* mock-dbe: the exception that ended main, "" if none

vars == <<args, capture, pc, frame, idx, collected_frames, writes, calls, err,
          vdif_file, rpc, fs_frames, fpos, k, sent, rerr>>

pcapVars   == <<args, capture, pc, frame, idx, collected_frames, writes, calls, err>>
replayVars == <<vdif_file, rpc, fs_frames, fpos, k, sent, rerr>>

(***************************************************************************)
(* Bounds of the model.                                                    *)
(***************************************************************************)
MaxRecords == 3     \* longest capture
MaxStart   == 2     \* largest --start-packet
MaxNum     == 2     \* largest --num-packets
MaxFrames  == 3     \* most frames in a VDIF file

(***************************************************************************)
(* Generic helpers.                                                        *)
(***************************************************************************)
SeqsUpTo(S, n) == UNION { [1..m -> S] : m \in 0..n }

Min(a, b) == IF a < b THEN a ELSE b

\* Python slice data[lo:hi] (0-based, hi exclusive, clipped to the length)
Slice(data, lo, hi) == SubSeq(data, lo + 1, Min(hi, Len(data)))

\* Python slice data[lo:]
SliceFrom(data, lo) == SubSeq(data, lo + 1, Len(data))

\* A Python dict as the sequence of its items in insertion order.
DictHas(d, key) == \E i \in 1..Len(d) : d[i].key = key

DictGet(d, key) == d[CHOOSE i \in 1..Len(d) : d[i].key = key].val

DictPut(d, key, val) ==
    IF DictHas(d, key)
    THEN [i \in 1..Len(d) |-> IF d[i].key = key THEN [key |-> key, val |-> val] ELSE d[i]]
    ELSE Append(d, [key |-> key, val |-> val])

\* Optional frame number of write_vdif_file: None or an integer
None == <<>>
Some(n) == <<n>>

(***************************************************************************)
(* pcap2vdif: the capture.                                                 *)
(***************************************************************************)
A1 == <<10, 0, 0, 1>>
A2 == <<10, 0, 0, 2>>
A3 == <<10, 0, 0, 3>>

\* Link payload of a loopback record: 4-byte link header, 20-byte IPv4
\* header with the addresses at header offsets 12 and 16, 8-byte UDP header.
\* Every header byte outside the addresses carries its own offset + 100.
LoopbackData(src, dst, payload) ==
    [i \in 1..16 |-> 99 + i] \o src \o dst \o [i \in 1..8 |-> 123 + i] \o payload

\* A capture record as pcapkit decodes it:
\*   protocol  frame.protocol
\*   udp       UDP in frame
\*   ip        the reassembler completes an IPv4 datagram from this record
\*   src, dst  frame[IPv4].src / .dst, dgram.id.src / .dst
\*   payload   frame[UDP].payload.data, dgram.packet.payload.data
\*   data      frame.payload.data
NullRec(src, dst, payload) ==
    [protocol |-> "NULL", udp |-> FALSE, ip |-> FALSE, src |-> src, dst |-> dst,
     payload |-> payload, data |-> LoopbackData(src, dst, payload)]

EthUdpRec(src, dst, payload, ip) ==
    [protocol |-> "Ethernet", udp |-> TRUE, ip |-> ip, src |-> src, dst |-> dst,
     payload |-> payload, data |-> <<>>]

EthOtherRec(ip) ==
    [protocol |-> "Ethernet", udp |-> FALSE, ip |-> ip, src |-> A1, dst |-> A2,
     payload |-> <<>>, data |-> <<>>]

OtherRec ==
    [protocol |-> "Other", udp |-> FALSE, ip |-> FALSE, src |-> A1, dst |-> A2,
     payload |-> <<>>, data |-> <<>>]

Records ==
    { NullRec(A1, A2, <<1>>), NullRec(A1, A3, <<2, 3>>), NullRec(A2, A1, <<>>),
      EthUdpRec(A1, A2, <<4>>, TRUE), EthUdpRec(A2, A3, <<5>>, FALSE),
      EthUdpRec(A3, A1, <<>>, TRUE),
      EthOtherRec(TRUE), OtherRec }

Captures == SeqsUpTo(Records, MaxRecords)

Args ==
    [r : BOOLEAN, start_packet : 0..MaxStart, num_packets : 0..MaxNum,
     single_vdif : BOOLEAN]

vdif_outfile_stem == "cap"

(***************************************************************************)
(* pcap2vdif: main's locals.                                               *)
(***************************************************************************)
all_packets == (args.start_packet = 0) /\ (args.num_packets = 0)

end_packet == IF args.num_packets = 0 THEN 0 ELSE args.start_packet + args.num_packets

\* frame_no in range(start_packet, end_packet)
InRange(frame_no) == args.start_packet <= frame_no /\ frame_no < end_packet

\* extraction.reassembly.ipv4: the completed datagrams of the records read,
\* each remembering the 0-based index of the record it came from.
RECURSIVE ReassemblyFrom(_, _)
ReassemblyFrom(frames, i) ==
    IF i > Len(frames) THEN <<>>
    ELSE (IF frames[i].ip
          THEN << [src |-> frames[i].src, dst |-> frames[i].dst, udp |-> frames[i].udp,
                   payload |-> frames[i].payload, rec |-> i - 1] >>
          ELSE <<>>) \o ReassemblyFrom(frames, i + 1)

reassembly_ipv4 == IF args.r THEN <<>> ELSE ReassemblyFrom(frame, 1)

\* The branch of line 71 taken once the capture has been read.
PathAfterRead(frames) ==
    IF (~args.r) /\ Len(ReassemblyFrom(frames, 1)) > 0 THEN "reasm" ELSE "demux"

(***************************************************************************)
(* pcap2vdif: output.                                                      *)
(***************************************************************************)
\* str(ipaddress.IPv4Address)
FormatAddr(a) ==
    ToString(a[1]) \o "." \o ToString(a[2]) \o "." \o ToString(a[3]) \o "." \o ToString(a[4])

FileStem(stem, src, dst) == stem \o "_" \o FormatAddr(src) \o "_" \o FormatAddr(dst)

\* write_vdif_file: the file written and the bytes written to it
write_vdif_file(vdif_frames, file_stem, frame_no) ==
    [name |-> (IF frame_no # None THEN file_stem \o "_" \o ToString(frame_no[1]) ELSE file_stem)
                 \o ".vdif",
     content |-> vdif_frames]

\* process_packet on the dict cf: the dict afterwards, the writes made and
\* the exception raised ("" if none).
process_packet(cf, src, dst, vdif_frame, stem, file_per_frame, packet_no) ==
    LET cf1 == IF ~DictHas(cf, src)
               THEN DictPut(cf, src, << [key |-> dst, val |-> <<>>] >>)
               ELSE cf
        inner == DictGet(cf1, src)
    IN  IF ~DictHas(inner, dst)
        THEN [cf |-> cf1, writes |-> <<>>, err |-> "KeyError"]
        ELSE LET buf == DictGet(inner, dst) \o vdif_frame
                 cf2 == DictPut(cf1, src, DictPut(inner, dst, buf))
             IN  [cf |-> cf2,
                  writes |-> IF file_per_frame
                             THEN << write_vdif_file(buf, FileStem(stem, src, dst), Some(packet_no)) >>
                             ELSE <<>>,
                  err |-> ""]

\* FlushInner without the test of line 112.
RECURSIVE FlushInner_NoEmptyTest(_, _, _, _)
FlushInner_NoEmptyTest(stem, src, inner, j) ==
    IF j > Len(inner) THEN <<>>
    ELSE << write_vdif_file(inner[j].val, FileStem(stem, src, inner[j].key), None) >>
         \o FlushInner_NoEmptyTest(stem, src, inner, j + 1)

\* Lines 110-113: one write per non-empty buffer, in dict order.
RECURSIVE FlushInner(_, _, _, _)
FlushInner(stem, src, inner, j) ==
    IF j > Len(inner) THEN <<>>
    ELSE (IF Len(inner[j].val) > 0
          THEN << write_vdif_file(inner[j].val, FileStem(stem, src, inner[j].key), None) >>
          ELSE <<>>) \o FlushInner(stem, src, inner, j + 1)

RECURSIVE FlushAll(_, _, _)
FlushAll(stem, cf, i) ==
    IF i > Len(cf) THEN <<>>
    ELSE FlushInner(stem, cf[i].key, cf[i].val, 1) \o FlushAll(stem, cf, i + 1)

(***************************************************************************)
(* pcap2vdif: the state machine of main.                                   *)
(***************************************************************************)
ReplayIdle ==
    /\ vdif_file = <<>>
    /\ rpc = "idle"
    /\ fs_frames = <<>>
    /\ fpos = 0
    /\ k = 0
    /\ sent = <<>>
    /\ rerr = ""

Init ==
    /\ args \in Args
    /\ capture \in Captures
    /\ pc = "read"
    /\ frame = <<>>
    /\ idx = 0
    /\ collected_frames = <<>>
    /\ writes = <<>>
    /\ calls = <<>>
    /\ err = ""
    /\ ReplayIdle

\* Line 61 with auto=True: the whole capture is read by extract().
ExtractAuto ==
    /\ pc = "read"
    /\ all_packets
    /\ frame' = capture
    /\ pc' = PathAfterRead(capture)
    /\ UNCHANGED <<args, capture, idx, collected_frames, writes, calls, err>>
    /\ UNCHANGED replayVars

\* Lines 66-68: one iteration of the read loop.
ReadFrame ==
    /\ pc = "read"
    /\ ~all_packets
    /\ Len(frame) < Len(capture)
    /\ LET frame_no == Len(frame)
           read == Append(frame, capture[frame_no + 1])
       IN  /\ frame' = read
           /\ pc' = IF frame_no = end_packet THEN PathAfterRead(read) ELSE "read"
    /\ UNCHANGED <<args, capture, idx, collected_frames, writes, calls, err>>
    /\ UNCHANGED replayVars

\* Lines 66-68: the capture ends before the break is reached.
ReadEOF ==
    /\ pc = "read"
    /\ ~all_packets
    /\ Len(frame) = Len(capture)
    /\ pc' = PathAfterRead(frame)
    /\ UNCHANGED <<args, capture, frame, idx, collected_frames, writes, calls, err>>
    /\ UNCHANGED replayVars

\* The effect of one call of process_packet from main.
CallProcessPacket(src, dst, payload, packet_no, rec) ==
    LET res == process_packet(collected_frames, src, dst, payload, vdif_outfile_stem,
                              ~args.single_vdif, packet_no)
    IN  /\ collected_frames' = res.cf
        /\ writes' = writes \o res.writes
        /\ calls' = Append(calls, [src |-> src, dst |-> dst, payload |-> payload,
                                   packet_no |-> packet_no, rec |-> rec])
        /\ err' = res.err
        /\ pc' = IF res.err # "" THEN "error" ELSE pc
        /\ idx' = idx + 1

\* Lines 72-79: one reassembled datagram carrying UDP.
ReasmUDP ==
    /\ pc = "reasm"
    /\ idx < Len(reassembly_ipv4)
    /\ LET dgram == reassembly_ipv4[idx + 1]
       IN  /\ dgram.udp
           /\ CallProcessPacket(dgram.src, dgram.dst, dgram.payload, idx, dgram.rec)
    /\ UNCHANGED <<args, capture, frame>>
    /\ UNCHANGED replayVars

\* Lines 72-73: one reassembled datagram without UDP.
ReasmSkip ==
    /\ pc = "reasm"
    /\ idx < Len(reassembly_ipv4)
    /\ ~reassembly_ipv4[idx + 1].udp
    /\ idx' = idx + 1
    /\ UNCHANGED <<args, capture, pc, frame, collected_frames, writes, calls, err>>
    /\ UNCHANGED replayVars

\* Line 83: the window test of the per-record path.
InWindow(frame_no) == all_packets \/ InRange(frame_no)

\* DemuxNull with the 4-byte link header left out of the offsets.
DemuxNull_NoLinkHeader ==
    /\ pc = "demux"
    /\ idx < Len(frame)
    /\ InWindow(idx)
    /\ frame[idx + 1].protocol = "NULL"
    /\ LET data == frame[idx + 1].data
       IN  CallProcessPacket(Slice(data, 12, 16), Slice(data, 16, 20),
                             SliceFrom(data, 20 + 8), idx, idx)
    /\ UNCHANGED <<args, capture, frame>>
    /\ UNCHANGED replayVars

\* Lines 84-93: a loopback record.
DemuxNull ==
    /\ pc = "demux"
    /\ idx < Len(frame)
    /\ InWindow(idx)
    /\ frame[idx + 1].protocol = "NULL"
    /\ LET data == frame[idx + 1].data
       IN  CallProcessPacket(Slice(data, 4 + 12, 4 + 16), Slice(data, 4 + 16, 4 + 20),
                             SliceFrom(data, 4 + 20 + 8), idx, idx)
    /\ UNCHANGED <<args, capture, frame>>
    /\ UNCHANGED replayVars

\* Lines 94-102: an Ethernet record in which pcapkit decoded UDP.
DemuxEthernetUDP ==
    /\ pc = "demux"
    /\ idx < Len(frame)
    /\ InWindow(idx)
    /\ frame[idx + 1].protocol # "NULL"
    /\ frame[idx + 1].protocol = "Ethernet" /\ frame[idx + 1].udp
    /\ CallProcessPacket(frame[idx + 1].src, frame[idx + 1].dst, frame[idx + 1].payload,
                         idx, idx)
    /\ UNCHANGED <<args, capture, frame>>
    /\ UNCHANGED replayVars

\* DemuxSkip raising on a record it does not understand.
DemuxSkip_Raises ==
    /\ pc = "demux"
    /\ idx < Len(frame)
    /\ InWindow(idx)
    /\ frame[idx + 1].protocol # "NULL"
    /\ ~(frame[idx + 1].protocol = "Ethernet" /\ frame[idx + 1].udp)
    /\ pc' = "error"
    /\ err' = "ValueError"
    /\ UNCHANGED <<args, capture, frame, idx, collected_frames, writes, calls>>
    /\ UNCHANGED replayVars

\* Lines 103-104: any other record inside the window.
DemuxSkip ==
    /\ pc = "demux"
    /\ idx < Len(frame)
    /\ InWindow(idx)
    /\ frame[idx + 1].protocol # "NULL"
    /\ ~(frame[idx + 1].protocol = "Ethernet" /\ frame[idx + 1].udp)
    /\ idx' = idx + 1
    /\ UNCHANGED <<args, capture, pc, frame, collected_frames, writes, calls, err>>
    /\ UNCHANGED replayVars

\* Line 83: a record outside the window.
DemuxOutOfWindow ==
    /\ pc = "demux"
    /\ idx < Len(frame)
    /\ ~InWindow(idx)
    /\ idx' = idx + 1
    /\ UNCHANGED <<args, capture, pc, frame, collected_frames, writes, calls, err>>
    /\ UNCHANGED replayVars

\* Lines 106-115: the processing loop has ended; flush and return 0.
Flush ==
    /\ \/ pc = "reasm" /\ idx = Len(reassembly_ipv4)
       \/ pc = "demux" /\ idx = Len(frame)
    /\ writes' = IF args.single_vdif
                 THEN writes \o FlushAll(vdif_outfile_stem, collected_frames, 1)
                 ELSE writes
    /\ pc' = "done"
    /\ UNCHANGED <<args, capture, frame, idx, collected_frames, calls, err>>
    /\ UNCHANGED replayVars

Next ==
    \/ ExtractAuto
    \/ ReadFrame
    \/ ReadEOF
    \/ ReasmUDP
    \/ ReasmSkip
    \/ DemuxNull
    \/ DemuxEthernetUDP
    \/ DemuxSkip
    \/ DemuxOutOfWindow
    \/ Flush

Spec == Init /\ [][Next]_vars

(***************************************************************************)
(* mock-dbe: the VDIF file.                                                *)
(***************************************************************************)
\* Size of a VDIF frame header as baseband reads it.
HeaderBytes == 32

\* A frame of the file: its header fields frame_nr and thread_id and its
\* declared length header.frame_nbytes.
FrameHeaders == [frame_nr : 0..1, thread_id : 0..1, nbytes : {40, 48}]

RECURSIVE SumBytes(_, _)
SumBytes(frames, n) == IF n = 0 THEN 0 ELSE SumBytes(frames, n - 1) + frames[n].nbytes

\* The sizes a file with these frames can have: complete, with trailing
\* bytes too short for a header, cut inside the last payload, cut inside the
\* last header.
FileSizes(frames) ==
    IF frames = <<>> THEN {0}
    ELSE LET total == SumBytes(frames, Len(frames))
             last  == SumBytes(frames, Len(frames) - 1)
         IN  {total, total + 8, total - 8, last + 16}

VdifFiles ==
    UNION { { [frames |-> fr, size |-> s] : s \in FileSizes(fr) } :
            fr \in SeqsUpTo(FrameHeaders, MaxFrames) }

\* fh.read(n) at position pos: the range of raw file offsets returned
RawRead(file, pos, n) == [lo |-> pos, hi |-> Min(pos + n, file.size)]

\* frames.sort(key=thread_id): stable insertion sort
RECURSIVE InsertByThread(_, _)
InsertByThread(sorted, f) ==
    IF sorted = <<>> THEN <<f>>
    ELSE IF sorted[Len(sorted)].thread_id <= f.thread_id
         THEN Append(sorted, f)
         ELSE Append(InsertByThread(SubSeq(sorted, 1, Len(sorted) - 1), f), sorted[Len(sorted)])

RECURSIVE SortByThread(_, _)
SortByThread(frames, n) ==
    IF n = 0 THEN <<>> ELSE InsertByThread(SortByThread(frames, n - 1), frames[n])

\* VDIFFrameSet.fromfile: read frames from position pos while the frame
\* number equals that of the first frame.  i is the 1-based number of the
\* frame whose header starts at pos, acc the frames read so far.
RECURSIVE FrameSetFrom(_, _, _, _)
FrameSetFrom(file, i, pos, acc) ==
    IF file.size - pos < HeaderBytes
    THEN \* EOFError in the header: fatal for the first header, end of set otherwise
         [frames |-> acc, pos |-> file.size, err |-> IF i = 1 THEN "EOFError" ELSE ""]
    ELSE IF i > 1 /\ file.frames[i].frame_nr # file.frames[1].frame_nr
    THEN \* header of the next frame set: seek back to before it
         [frames |-> acc, pos |-> pos, err |-> ""]
    ELSE IF pos + file.frames[i].nbytes > file.size
    THEN \* "could not read full payload"
         [frames |-> acc, pos |-> file.size, err |-> "EOFError"]
    ELSE FrameSetFrom(file, i + 1, pos + file.frames[i].nbytes,
                      Append(acc, [frame_nr |-> file.frames[i].frame_nr,
                                   thread_id |-> file.frames[i].thread_id,
                                   nbytes |-> file.frames[i].nbytes,
                                   index |-> i]))

\* fh.read_frameset()
read_frameset(file) ==
    LET res == FrameSetFrom(file, 1, 0, <<>>)
    IN  [frames |-> SortByThread(res.frames, Len(res.frames)), pos |-> res.pos, err |-> res.err]

(***************************************************************************)
(* mock-dbe: the state machine of main.                                    *)
(***************************************************************************)
PcapIdle ==
    /\ args = [r |-> FALSE, start_packet |-> 0, num_packets |-> 0, single_vdif |-> FALSE]
    /\ capture = <<>>
    /\ pc = "idle"
    /\ frame = <<>>
    /\ idx = 0
    /\ collected_frames = <<>>
    /\ writes = <<>>
    /\ calls = <<>>
    /\ err = ""

InitReplay ==
    /\ vdif_file \in VdifFiles
    /\ rpc = "open"
    /\ fs_frames = <<>>
    /\ fpos = 0
    /\ k = 0
    /\ sent = <<>>
    /\ rerr = ""
    /\ PcapIdle

\* Lines 44-46: open the file and decode the frame set.
ReadFrameset ==
    /\ rpc = "open"
    /\ LET fs == read_frameset(vdif_file)
       IN  /\ fs_frames' = IF fs.err = "" THEN fs.frames ELSE <<>>
           /\ fpos' = fs.pos
           /\ rerr' = fs.err
           /\ rpc' = IF fs.err = "" THEN "seek" ELSE "error"
    /\ UNCHANGED <<vdif_file, k, sent>>
    /\ UNCHANGED pcapVars

\* Lines 49-52: rewind the raw file and create the socket.
Rewind ==
    /\ rpc = "seek"
    /\ fpos' = 0
    /\ rpc' = "send"
    /\ UNCHANGED <<vdif_file, fs_frames, k, sent, rerr>>
    /\ UNCHANGED pcapVars

\* Lines 55-57: one iteration of the send loop, sendto returns.
SendOk ==
    /\ rpc = "send"
    /\ k < Len(fs_frames)
    /\ LET f == fs_frames[k + 1]
           content == RawRead(vdif_file, fpos, f.nbytes)
       IN  /\ fpos' = content.hi
           /\ sent' = Append(sent, [lo |-> content.lo, hi |-> content.hi, ok |-> TRUE,
                                    frame |-> k + 1])
    /\ k' = k + 1
    /\ UNCHANGED <<vdif_file, fs_frames, rpc, rerr>>
    /\ UNCHANGED pcapVars

\* SendFail with the exception swallowed and the loop carrying on.
SendFail_Swallow ==
    /\ rpc = "send"
    /\ k < Len(fs_frames)
    /\ LET f == fs_frames[k + 1]
           content == RawRead(vdif_file, fpos, f.nbytes)
       IN  /\ fpos' = content.hi
           /\ sent' = Append(sent, [lo |-> content.lo, hi |-> content.hi, ok |-> FALSE,
                                    frame |-> k + 1])
    /\ k' = k + 1
    /\ rerr' = "OSError"
    /\ UNCHANGED <<vdif_file, fs_frames, rpc>>
    /\ UNCHANGED pcapVars

\* Lines 55-57: one iteration of the send loop, sendto raises; nothing
\* catches the exception, so main ends.
SendFail ==
    /\ rpc = "send"
    /\ k < Len(fs_frames)
    /\ LET f == fs_frames[k + 1]
           content == RawRead(vdif_file, fpos, f.nbytes)
       IN  /\ fpos' = content.hi
           /\ sent' = Append(sent, [lo |-> content.lo, hi |-> content.hi, ok |-> FALSE,
                                    frame |-> k + 1])
    /\ rpc' = "error"
    /\ rerr' = "OSError"
    /\ UNCHANGED <<vdif_file, fs_frames, k>>
    /\ UNCHANGED pcapVars

\* Line 59: every frame of the set has been sent; return 0.
Return ==
    /\ rpc = "send"
    /\ k = Len(fs_frames)
    /\ rpc' = "done"
    /\ UNCHANGED <<vdif_file, fs_frames, fpos, k, sent, rerr>>
    /\ UNCHANGED pcapVars

NextReplay ==
    \/ ReadFrameset
    \/ Rewind
    \/ SendOk
    \/ SendFail
    \/ Return

SpecReplay == InitReplay /\ [][NextReplay]_vars

(***************************************************************************)
(* Vocabulary of the properties.                                           *)
(***************************************************************************)
Addrs == {A1, A2, A3}

\* The (src, dst) pairs that have a buffer in the dict.
FlowKeys(cf) ==
    UNION { { <<cf[i].key, cf[i].val[j].key>> : j \in 1..Len(cf[i].val) } : i \in 1..Len(cf) }

HasBuffer(cf, src, dst) == DictHas(cf, src) /\ DictHas(DictGet(cf, src), dst)

BufferOf(cf, src, dst) == DictGet(DictGet(cf, src), dst)

BufferOrEmpty(cf, src, dst) == IF HasBuffer(cf, src, dst) THEN BufferOf(cf, src, dst) ELSE <<>>

\* The payloads passed for (src, dst) among the first n calls, concatenated.
RECURSIVE ConcatFor(_, _, _, _)
ConcatFor(cs, src, dst, n) ==
    IF n = 0 THEN <<>>
    ELSE ConcatFor(cs, src, dst, n - 1)
         \o (IF cs[n].src = src /\ cs[n].dst = dst THEN cs[n].payload ELSE <<>>)

CallPairs == { <<calls[n].src, calls[n].dst>> : n \in 1..Len(calls) }

SetMax(S) == CHOOSE x \in S : \A y \in S : y <= x

\* process_packet applied to the first n calls of cs, starting from an empty
\* dict and stopping at the first exception.
RECURSIVE RunCalls(_, _, _)
RunCalls(cs, n, file_per_frame) ==
    IF n = 0 THEN [cf |-> <<>>, writes |-> <<>>, err |-> ""]
    ELSE LET prev == RunCalls(cs, n - 1, file_per_frame)
         IN  IF prev.err # "" THEN prev
             ELSE LET res == process_packet(prev.cf, cs[n].src, cs[n].dst, cs[n].payload,
                                            vdif_outfile_stem, file_per_frame, cs[n].packet_no)
                  IN  [cf |-> res.cf, writes |-> prev.writes \o res.writes, err |-> res.err]

SingleName(src, dst) == "cap_" \o FormatAddr(src) \o "_" \o FormatAddr(dst) \o ".vdif"

PerRecordName(src, dst, n) ==
    "cap_" \o FormatAddr(src) \o "_" \o FormatAddr(dst) \o "_" \o ToString(n) \o ".vdif"

\* The kinds of record the per-record path passes over.
SkipKind(rec) ==
    \/ rec.protocol \notin {"NULL", "Ethernet"}
    \/ rec.protocol = "Ethernet" /\ ~rec.udp

(***************************************************************************)
(* Properties of pcap2vdif (checked under Spec).                           *)
(***************************************************************************)
\* The records that yield a payload on the path main took.
Yielding(i) ==
    LET rec == capture[i + 1]
    IN  IF PathAfterRead(frame) = "reasm"
        THEN rec.ip /\ rec.udp
        ELSE rec.protocol = "NULL" \/ (rec.protocol = "Ethernet" /\ rec.udp)

WindowOf ==
    { i \in 0..(Len(capture) - 1) :
        /\ args.start_packet <= i
        /\ (args.num_packets = 0 \/ i < args.start_packet + args.num_packets) }

\* C1: when main has returned, the records that contributed a payload are
\* exactly the payload-yielding records with index in [N, N+K), or from N to
\* the end of the capture when K = 0.
C1_Windowing ==
    pc = "done" =>
        { calls[n].rec : n \in 1..Len(calls) } = { i \in WindowOf : Yielding(i) }

\* C2: after any sequence of process_packet calls no call has raised, a
\* buffer exists for exactly the (src, dst) pairs passed, and each buffer is
\* the concatenation in call order of the payloads passed for its pair.
C2_FlowKeying ==
    /\ err # "KeyError"
    /\ FlowKeys(collected_frames) = CallPairs
    /\ \A key \in FlowKeys(collected_frames) :
          BufferOf(collected_frames, key[1], key[2])
              = ConcatFor(calls, key[1], key[2], Len(calls))

\* C4: without --single-vdif the n-th recovered payload is followed by
\* exactly one write, of all payloads of its flow so far, to the file
\* cap_{src}_{dst}_{index of the record that yielded it}.vdif.
C4_PerRecordFile ==
    (pc # "idle" /\ ~args.single_vdif) =>
        /\ Len(writes) = Len(calls)
        /\ \A n \in 1..Len(calls) :
              /\ n <= Len(writes)
              /\ writes[n] = [name |-> PerRecordName(calls[n].src, calls[n].dst, calls[n].rec),
                              content |-> ConcatFor(calls, calls[n].src, calls[n].dst, n)]

\* C5: with --single-vdif nothing is written before main has processed the
\* last record; once it has returned, each flow with a non-empty buffer has
\* been written exactly once, with its full buffer, to cap_{src}_{dst}.vdif,
\* a flow with an empty buffer has no file, and nothing else was written.
C5_SingleFileFlush ==
    (pc # "idle" /\ args.single_vdif) =>
        /\ pc # "done" => writes = <<>>
        /\ pc = "done" =>
              /\ \A key \in CallPairs :
                    LET full == ConcatFor(calls, key[1], key[2], Len(calls))
                        mine == { n \in 1..Len(writes) : writes[n].name = SingleName(key[1], key[2]) }
                    IN  /\ Cardinality(mine) = (IF Len(full) > 0 THEN 1 ELSE 0)
                        /\ \A n \in mine : writes[n].content = full
              /\ \A n \in 1..Len(writes) :
                    \E key \in CallPairs : writes[n].name = SingleName(key[1], key[2])

C5_Witness ==
    /\ args.single_vdif
    /\ pc = "done"
    /\ Len(writes) >= 1
    /\ \E key \in FlowKeys(collected_frames) :
          BufferOf(collected_frames, key[1], key[2]) = <<>>
    /\ \E key \in FlowKeys(collected_frames) :
          Len(BufferOf(collected_frames, key[1], key[2])) >= 2

\* C6: for the payloads recovered by a run with --single-vdif that has
\* ended, and for every flow that received at least one payload byte, a run
\* without --single-vdif on the same payloads writes a file for the flow
\* exactly if the single-file run does, and the last file it writes for the
\* flow has the content of the flow's single file.
C6_ModesEquivalent ==
    (args.single_vdif /\ pc \in {"done", "error"}) =>
        LET per == RunCalls(calls, Len(calls), TRUE).writes
        IN  \A key \in CallPairs :
                LET src    == key[1]
                    dst    == key[2]
                    single == { n \in 1..Len(writes) : writes[n].name = SingleName(src, dst) }
                    multi  == { n \in 1..Len(per) :
                                  \E m \in 0..Len(capture) : per[n].name = PerRecordName(src, dst, m) }
                IN  Len(ConcatFor(calls, src, dst, Len(calls))) > 0 =>
                       /\ (single # {}) <=> (multi # {})
                       /\ (single # {} /\ multi # {}) =>
                             \A n \in single : writes[n].content = per[SetMax(multi)].content

\* C8: a step of the per-record path on a record in the window that is
\* neither loopback nor Ethernet with UDP raises nothing, writes nothing,
\* leaves the dict as it is and moves on to the next record.
C8_SilentSkip ==
    [][ (pc = "demux" /\ idx < Len(frame) /\ InWindow(idx) /\ SkipKind(frame[idx + 1])) =>
            /\ collected_frames' = collected_frames
            /\ writes' = writes
            /\ calls' = calls
            /\ err' = ""
            /\ pc' = "demux"
            /\ idx' = idx + 1 ]_vars

C8_Witness ==
    /\ pc = "demux"
    /\ idx >= 1
    /\ idx < Len(frame)
    /\ InWindow(idx - 1)
    /\ SkipKind(frame[idx])
    /\ collected_frames # <<>>
    /\ err = ""

\* C9: a step of the per-record path on a loopback record in the window
\* passes on bytes 16..19 as source, bytes 20..23 as destination and the
\* bytes from offset 32 on as payload, and the payload is what the flow's
\* buffer grows by.
C9_LoopbackExtraction ==
    [][ (pc = "demux" /\ idx < Len(frame) /\ InWindow(idx) /\ frame[idx + 1].protocol = "NULL") =>
            LET data == frame[idx + 1].data
                src  == << data[17], data[18], data[19], data[20] >>
                dst  == << data[21], data[22], data[23], data[24] >>
                rest == [i \in 1..(Len(data) - 32) |-> data[32 + i]]
            IN  /\ Len(calls') = Len(calls) + 1
                /\ calls'[Len(calls')].src = src
                /\ calls'[Len(calls')].dst = dst
                /\ calls'[Len(calls')].payload = rest
                /\ err' = "" =>
                      BufferOf(collected_frames', src, dst)
                          = BufferOrEmpty(collected_frames, src, dst) \o rest ]_vars

C9_Witness ==
    /\ pc = "demux"
    /\ err = ""
    /\ idx >= 2
    /\ InWindow(idx - 1)
    /\ frame[idx].protocol = "NULL"
    /\ calls # <<>>
    /\ calls[Len(calls)].rec = idx - 1
    /\ Len(calls[Len(calls)].payload) >= 2
    /\ args.start_packet >= 1

(***************************************************************************)
(* Properties of mock-dbe (checked under SpecReplay).                     *)
(***************************************************************************)
TotalBytes == SumBytes(vdif_file.frames, Len(vdif_file.frames))

\* C3: when the file holds all declared bytes and no send fails, the run
\* makes one sendto call per frame of the file, in file order, the j-th with
\* the raw bytes [L1+...+L(j-1), L1+...+Lj).
C3_ReplayRoundTrip ==
    (/\ rpc \in {"done", "error"}
     /\ vdif_file.size >= TotalBytes
     /\ \A j \in 1..Len(sent) : sent[j].ok) =>
        /\ Len(sent) = Len(vdif_file.frames)
        /\ \A j \in 1..Len(sent) :
              /\ sent[j].lo = SumBytes(vdif_file.frames, j - 1)
              /\ sent[j].hi = SumBytes(vdif_file.frames, j)

\* The last frame has its header in the file but not all its declared bytes.
PayloadCut ==
    /\ vdif_file.frames # <<>>
    /\ vdif_file.size < TotalBytes
    /\ vdif_file.size - SumBytes(vdif_file.frames, Len(vdif_file.frames) - 1) >= HeaderBytes

\* C7: on a file in which a frame declares more bytes than the file holds,
\* the run does not return normally and no datagram is shorter than the
\* declared length of its frame.
C7_ReplayEOF ==
    PayloadCut =>
        /\ rpc # "done"
        /\ \A j \in 1..Len(sent) :
              sent[j].hi - sent[j].lo = fs_frames[sent[j].frame].nbytes

\* C10: a failed send ends the run in the error state; it is the last
\* sendto call ever made, and the calls before it are one successful call
\* per frame, in frame order.
C10_AbortOnSendFailure ==
    /\ \A j \in 1..Len(sent) :
          /\ sent[j].frame = j
          /\ ~sent[j].ok => (j = Len(sent) /\ rpc = "error" /\ rerr = "OSError")
    /\ rerr = "OSError" => (rpc = "error" /\ sent # <<>> /\ ~sent[Len(sent)].ok)

C10_Witness ==
    /\ rpc = "error"
    /\ rerr = "OSError"
    /\ Len(sent) = 2
    /\ Len(fs_frames) = 3

====
